---- MODULE Spec2Model ----
(***************************************************************************)
(* The retry engine of LOOP_APP: withRetry, isRetryableError and           *)
(* calculateBackoffDelay, in the client copy (services/geminiServiceCore)  *)
(* and in the server copy (server/index.js), together with the client      *)
(* operation they wrap (fetch followed by handleResponse).                 *)
(*                                                                         *)
(* Messages are sequences of words; String.prototype.includes(w) is        *)
(* modelled as the occurrence of the word w in the sequence.  Durations    *)
(* are integers in milliseconds; Math.random() is drawn in tenths.         *)
(***************************************************************************)
EXTENDS Integers, Sequences, FiniteSets, TLC

\* Largest maxAttempts a policy of the model can have.
MaxAttemptsBound == 3

\* Largest attempt index the backoff calculator is examined for.
MaxAttemptIndex == 4

---------------------------------------------------------------------------
(* Errors and messages                                                     *)

Includes(msg, word) == \E i \in DOMAIN msg : msg[i] = word

\* A thrown value.  kind: "TypeError" and "Error" are Error objects,
\* "Object" is a plain object with a message property, "String" a thrown
\* string, "Null" a thrown null/undefined.  at: the invocation that threw it.
MkError(kind, msg, statusCode, at) ==
    [kind |-> kind, msg |-> msg, statusCode |-> statusCode, at |-> at]

\* The value of `lastError` before any catch (undefined).
Undefined == MkError("Undefined", <<>>, 0, 0)

InstanceOfError(e) == e.kind \in {"TypeError", "Error"}

\* e?.message || '' : strings, null and undefined carry no message.
MessageOf(e) == IF e.kind \in {"TypeError", "Error", "Object"} THEN e.msg ELSE <<>>

---------------------------------------------------------------------------
(* Retry policies                                                          *)

DEFAULT_RETRY_CONFIG ==
    [maxAttempts |-> 3, initialDelayMs |-> 500, maxDelayMs |-> 5000,
     backoffMultiplier |-> 2]

RETRY_CONFIG ==
    [maxAttempts |-> 3, initialDelayMs |-> 1000, maxDelayMs |-> 10000,
     backoffMultiplier |-> 2]

\* The policies the client copy of withRetry is called with.
InitialDelays == {500, 1000, 2000}
MaxDelays == {1500, 5000}
Multipliers == {0, 1, 2}

Policies ==
    [maxAttempts : 0..MaxAttemptsBound, initialDelayMs : InitialDelays,
     maxDelayMs : MaxDelays, backoffMultiplier : Multipliers]

\* Math.random(), in tenths: 0 <= r < 1.
RandomTenths == {0, 5, 9}

JitterPercent == 10

RECURSIVE Pow(_, _)
Pow(b, n) == IF n = 0 THEN 1 ELSE b * Pow(b, n - 1)

Min(a, b) == IF a <= b THEN a ELSE b
Max(a, b) == IF a >= b THEN a ELSE b

\* Math.min(initialDelayMs * Math.pow(backoffMultiplier, attempt), maxDelayMs)
uncappedDelay(k, cfg) == cfg.initialDelayMs * Pow(cfg.backoffMultiplier, k)
cappedDelay(k, cfg) ==
    Min(cfg.initialDelayMs * Pow(cfg.backoffMultiplier, k), cfg.maxDelayMs)

\* cappedDelay * 0.1 * (Math.random() * 2 - 1), with Math.random() = r/10
jitterOneSided(k, cfg, r) == (cappedDelay(k, cfg) * JitterPercent * (2 * r)) \div 1000
jitter(k, cfg, r) == (cappedDelay(k, cfg) * JitterPercent * (2 * r - 10)) \div 1000

calculateBackoffDelayFromNextIndex(k, cfg, r) ==
    Max(0, cappedDelay(k + 1, cfg) + jitter(k + 1, cfg, r))
calculateBackoffDelay(k, cfg, r) == Max(0, cappedDelay(k, cfg) + jitter(k, cfg, r))

---------------------------------------------------------------------------
(* Error classifiers                                                       *)

\* client: services/geminiServiceCore.ts
isRetryableErrorWithoutTypeError(e) ==
    IF InstanceOfError(e) /\ Includes(e.msg, "status") THEN TRUE
    ELSE FALSE
isRetryableErrorDefaultTrue(e) ==
    IF e.kind = "TypeError" THEN TRUE
    ELSE IF InstanceOfError(e) /\ Includes(e.msg, "status") THEN TRUE
    ELSE TRUE
isRetryableError(e) ==
    IF e.kind = "TypeError" THEN TRUE
    ELSE IF InstanceOfError(e) /\ Includes(e.msg, "status") THEN TRUE
    ELSE FALSE

\* server: server/index.js
isRetryableErrorServer(e) ==
    LET message == MessageOf(e) IN
        \/ Includes(message, "429")
        \/ Includes(message, "500")
        \/ Includes(message, "503")
        \/ Includes(message, "timeout")
        \/ Includes(message, "ECONNREFUSED")
        \/ Includes(message, "network")

---------------------------------------------------------------------------
(* The wrapped operations                                                  *)

\* Response bodies: the `error` field is a string or is not one (absent,
\* or the body is not JSON and parses to {}).
Bodies ==
    { [errorIsString |-> FALSE, error |-> <<>>],
      [errorIsString |-> TRUE,  error |-> <<"Subject", "is", "required.">>],
      [errorIsString |-> TRUE,  error |-> <<"invalid", "status", "value">>] }

NoBody == [errorIsString |-> FALSE, error |-> <<>>]

Statuses == {200, 400, 401, 403, 429, 500, 502, 503}

ResponseOk(status) == status >= 200 /\ status <= 299

\* Values a wrapped operation can throw on its own account (the Gemini SDK
\* on the server, any fn on the client).
ThrownValues ==
    { [kind |-> "Error",  msg |-> <<"got", "status", "429">>],
      [kind |-> "Error",  msg |-> <<"503", "Service", "Unavailable">>],
      [kind |-> "Error",  msg |-> <<"502", "Bad", "Gateway">>],
      [kind |-> "Error",  msg |-> <<"request", "timeout">>],
      [kind |-> "Error",  msg |-> <<"API", "key", "not", "valid">>],
      [kind |-> "Error",  msg |-> <<>>],
      [kind |-> "Object", msg |-> <<"network", "down">>],
      [kind |-> "String", msg |-> <<"timeout">>],
      [kind |-> "Null",   msg |-> <<>>] }

NoThrown == [kind |-> "Null", msg |-> <<>>]

\* What one invocation of the wrapped operation does.
\*   "value":    the operation resolves (generic fn / generateContent)
\*   "throw":    the operation throws `thrown`
\*   "reject":   fetch rejects: no response was received
\*   "response": fetch resolves with a response of `status` and `body`
MkOutcome(type, status, body, thrown) ==
    [type |-> type, status |-> status, body |-> body, thrown |-> thrown]

NoOutcome == MkOutcome("none", 0, NoBody, NoThrown)

GenericOutcomes ==
    {MkOutcome("value", 0, NoBody, NoThrown)}
        \cup {MkOutcome("throw", 0, NoBody, t) : t \in ThrownValues}

FetchOutcomes ==
    {MkOutcome("reject", 0, NoBody, NoThrown)}
        \cup {MkOutcome("response", st, b, NoThrown) : st \in Statuses, b \in Bodies}

ClientOutcomes == FetchOutcomes \cup GenericOutcomes
ServerOutcomes == GenericOutcomes

\* The outcome of an invocation as seen by withRetry.
Success(at) == [ok |-> TRUE, error |-> Undefined, value |-> at]
Failure(e) == [ok |-> FALSE, error |-> e, value |-> 0]

\* handleResponse: a non-ok response becomes an Error carrying the body's
\* error text, or the generic text with the status in it.
handleResponseGenericOnly(o, at) ==
    IF ~ResponseOk(o.status)
    THEN Failure(MkError("Error",
                         <<"The", "research", "service", "returned", "an",
                           "error", ToString(o.status)>>, o.status, at))
    ELSE Success(at)
handleResponse(o, at) ==
    IF ~ResponseOk(o.status)
    THEN LET message ==
                 IF o.body.errorIsString THEN o.body.error
                 ELSE <<"The", "research", "service", "returned", "an",
                        "error", ToString(o.status)>>
         IN Failure(MkError("Error", message, o.status, at))
    ELSE Success(at)

\* fn(): fetch(...).then(handleResponse), or a generic operation.  A
\* rejected fetch rejects with a TypeError.
RunOperation(o, at) ==
    CASE o.type = "value"    -> Success(at)
      [] o.type = "throw"    -> Failure(MkError(o.thrown.kind, o.thrown.msg, 0, at))
      [] o.type = "reject"   -> Failure(MkError("TypeError", <<"fetch", "failed">>, 0, at))
      [] o.type = "response" -> handleResponse(o, at)

---------------------------------------------------------------------------
(* State of one withRetry call                                             *)

VARIABLES
    copy,          \* "client" or "server": which copy of withRetry runs
    config,        \* the policy of the call
    observed,      \* an onRetry observer was passed (server: logger.warn)
    pc,            \* "idle", "loop", "sleeping", "returned", "thrown"
    attempt,       \* the loop variable of withRetry
    lastError,     \* the local variable lastError
    raised,        \* the error withRetry threw
    result,        \* the value withRetry returned
    delay,         \* the delay of the sleep in progress
    invocations,   \* how often fn was invoked in this call
    waits,         \* how often sleep was called in this call
    onRetryCalls,  \* how often the observer was called in this call
    onRetryArgs,   \* the arguments of the last observer call
    lastOutcome    \* what the most recent invocation of fn did

\* State of the loop controller (App.tsx handleStartResearch, cli main).
VARIABLES
    ui,              \* "web" or "cli": which controller runs
    session,         \* "Ready", "RunningStep", "AwaitingNextSubject",
                     \* "Completed", "Aborted"
    loops,           \* the requested step count (loops / loopCount)
    step,            \* the loop variable (i / step)
    currentSubject,  \* the local variable currentSubject
    steps,           \* web: researchSteps; cli: the step results printed
    calls,           \* the service calls of the session, in invocation order
    termination,     \* why the session ended
    cause,           \* the error that ended the session
    errorShown,      \* web: the `error` state is set
    exitCode         \* cli: the exit status, -1 while the process runs

\* State of the web page (App.tsx) and the requests of the session.
VARIABLES
    isLoading,       \* the `isLoading` state of App
    currentStep,     \* the `currentStep` state of App
    captured,        \* the `currentStep` the running handleStartResearch
                     \* closed over: the state of the render it was made in
    errorStep,       \* the step named in the `error` text, -1 without one
    requests         \* the requests of the session sent to the API server
                     \* server/index.js

\* State of a URL resolution (createGeminiService resolveApiUrl).
VARIABLES
    env,             \* the environment: VITE_API_BASE_URL and PORT
    path,            \* the path resolveApiUrl was called with
    url              \* the URL it returned

engineVars == <<copy, config, observed, pc, attempt, lastError, raised, result,
                delay, invocations, waits, onRetryCalls, onRetryArgs, lastOutcome>>

loopVars == <<ui, session, loops, step, currentSubject, steps, calls,
              termination, cause, errorShown, exitCode>>

uiVars == <<isLoading, currentStep, captured, errorStep>>

urlVars == <<env, path, url>>

vars == <<copy, config, observed, pc, attempt, lastError, raised, result,
          delay, invocations, waits, onRetryCalls, onRetryArgs, lastOutcome,
          ui, session, loops, step, currentSubject, steps, calls,
          termination, cause, errorShown, exitCode,
          isLoading, currentStep, captured, errorStep, requests,
          env, path, url>>

\* No variable of the environment is set and no URL has been resolved.
UrlIdle ==
    /\ env = [base |-> <<>>, port |-> <<>>]
    /\ path = <<>>
    /\ url = <<>>

\* The arguments of an observer call; waitsBefore: how many sleeps of the
\* call had begun when the observer ran.
NoArgs ==
    [attempt |-> 0, errorAt |-> 0, delay |-> 0, hasDelay |-> FALSE,
     waitsBefore |-> 0]

\* No session has been started.
LoopIdle ==
    /\ session = "Ready"
    /\ loops = 0
    /\ step = 0
    /\ currentSubject = ""
    /\ steps = <<>>
    /\ calls = <<>>
    /\ termination = "none"
    /\ cause = Undefined
    /\ errorShown = FALSE
    /\ exitCode = -1
    /\ isLoading = FALSE
    /\ currentStep = 0
    /\ captured = 0
    /\ errorStep = -1
    /\ requests = 0

EngineIdle ==
    /\ copy = "client"
    /\ config = DEFAULT_RETRY_CONFIG
    /\ observed = FALSE
    /\ pc = "idle"
    /\ attempt = 0
    /\ lastError = Undefined
    /\ raised = Undefined
    /\ result = 0
    /\ delay = 0
    /\ invocations = 0
    /\ waits = 0
    /\ onRetryCalls = 0
    /\ onRetryArgs = NoArgs
    /\ lastOutcome = NoOutcome

\* The retry engine on its own: no controller runs.
Init ==
    /\ EngineIdle
    /\ ui = "cli"
    /\ LoopIdle
    /\ UrlIdle

\* Entry of withRetry: `let lastError; for (let attempt = 0; ...`.
EnterKeepingAttempt(c, cfg, obs) ==
    /\ pc \in {"idle", "returned", "thrown"}
    /\ copy' = c
    /\ config' = cfg
    /\ observed' = obs
    /\ pc' = "loop"
    /\ attempt' = attempt
    /\ lastError' = lastError
    /\ raised' = Undefined
    /\ result' = 0
    /\ delay' = 0
    /\ invocations' = 0
    /\ waits' = 0
    /\ onRetryCalls' = 0
    /\ onRetryArgs' = NoArgs
    /\ lastOutcome' = NoOutcome
Enter(c, cfg, obs) ==
    /\ pc \in {"idle", "returned", "thrown"}
    /\ copy' = c
    /\ config' = cfg
    /\ observed' = obs
    /\ pc' = "loop"
    /\ attempt' = 0
    /\ lastError' = Undefined
    /\ raised' = Undefined
    /\ result' = 0
    /\ delay' = 0
    /\ invocations' = 0
    /\ waits' = 0
    /\ onRetryCalls' = 0
    /\ onRetryArgs' = NoArgs
    /\ lastOutcome' = NoOutcome

\* The client's withRetry(fn, config = DEFAULT_RETRY_CONFIG, onRetry?).
CallClient ==
    /\ \E cfg \in Policies, obs \in BOOLEAN : Enter("client", cfg, obs)
    /\ UNCHANGED <<loopVars, uiVars, requests, urlVars>>

\* The server's withRetry(fn, fnName): RETRY_CONFIG, logger.warn observes.
CallServer ==
    /\ Enter("server", RETRY_CONFIG, TRUE)
    /\ UNCHANGED <<loopVars, uiVars, requests, urlVars>>

\* config.maxAttempts, as the loop header and the last-attempt test read it.
AttemptLimitOffByOne(cfg) == cfg.maxAttempts + 1
AttemptLimit(cfg) == cfg.maxAttempts

\* `lastError = error`
RecordFirstError(prev, e) == IF prev = Undefined THEN e ELSE prev
recordError(prev, e) == e

\* The catch block's decision: "break" on the last attempt, "throw" for a
\* terminal error, "retry" otherwise.
catchBlockIgnoringClassifier(a, cfg, retryable) ==
    IF a = AttemptLimit(cfg) - 1 THEN "break" ELSE "retry"
catchBlockWithoutLastCheck(a, cfg, retryable) ==
    IF ~retryable THEN "throw" ELSE "retry"
catchBlock(a, cfg, retryable) ==
    IF a = AttemptLimit(cfg) - 1 THEN "break"
    ELSE IF ~retryable THEN "throw"
    ELSE "retry"

\* attempt++
IncrementTwice(a) == a + 2
nextAttempt(a) == a + 1

\* `isRetryableError(error)` in the running copy of withRetry.
Classify(e) ==
    IF copy = "client" THEN isRetryableError(e) ELSE isRetryableErrorServer(e)

\* `onRetry?.(attempt + 1, error)` stands after both exits of the catch
\* block: the observer runs when the catch block goes on to sleep.
notifiesOnEveryFailure(decision) == TRUE
notifies(decision) == decision = "retry"

\* One iteration of the loop body: invoke fn, return its value or run the
\* catch block up to the call of sleep.
Iteration(o, r) ==
    LET n == invocations + 1
        out == RunOperation(o, n)
        e == out.error
        d == calculateBackoffDelay(attempt, config, r)
        decision == catchBlock(attempt, config, Classify(e))
    IN  /\ invocations' = n
        /\ lastOutcome' = o
        /\ UNCHANGED <<copy, config, observed, attempt>>
        /\ IF out.ok
           THEN /\ pc' = "returned"
                /\ result' = out.value
                /\ UNCHANGED <<lastError, raised, delay, waits, onRetryCalls,
                               onRetryArgs>>
           ELSE /\ lastError' = recordError(lastError, e)
                /\ UNCHANGED result
                /\ IF observed /\ notifies(decision)
                   THEN /\ onRetryCalls' = onRetryCalls + 1
                        /\ onRetryArgs' =
                              [attempt |-> attempt + 1, errorAt |-> e.at,
                               delay |-> IF copy = "server" THEN d ELSE 0,
                               hasDelay |-> copy = "server",
                               waitsBefore |-> waits]
                   ELSE UNCHANGED <<onRetryCalls, onRetryArgs>>
                /\ CASE decision = "break" ->
                          /\ pc' = "thrown"
                          /\ raised' = lastError'
                          /\ UNCHANGED <<delay, waits>>
                     [] decision = "throw" ->
                          /\ pc' = "thrown"
                          /\ raised' = e
                          /\ UNCHANGED <<delay, waits>>
                     [] decision = "retry" ->
                          /\ pc' = "sleeping"
                          /\ delay' = d
                          /\ waits' = waits + 1
                          /\ UNCHANGED raised

ClientAttempt ==
    /\ pc = "loop"
    /\ copy = "client"
    /\ attempt < AttemptLimit(config)
    /\ \E o \in ClientOutcomes, r \in RandomTenths : Iteration(o, r)
    /\ UNCHANGED <<loopVars, uiVars, requests, urlVars>>

ServerAttempt ==
    /\ pc = "loop"
    /\ copy = "server"
    /\ attempt < AttemptLimit(config)
    /\ \E o \in ServerOutcomes, r \in RandomTenths : Iteration(o, r)
    /\ UNCHANGED <<loopVars, uiVars, requests, urlVars>>

\* The sleep ends and the loop header runs attempt++.
Wake ==
    /\ pc = "sleeping"
    /\ attempt' = nextAttempt(attempt)
    /\ pc' = "loop"
    /\ UNCHANGED <<copy, config, observed, lastError, raised, result, delay,
                   invocations, waits, onRetryCalls, onRetryArgs, lastOutcome>>
    /\ UNCHANGED <<loopVars, uiVars, requests, urlVars>>

\* The loop condition fails: `throw lastError` after the loop.
LoopExit ==
    /\ pc = "loop"
    /\ ~(attempt < AttemptLimit(config))
    /\ pc' = "thrown"
    /\ raised' = lastError
    /\ UNCHANGED <<copy, config, observed, attempt, lastError, result, delay,
                   invocations, waits, onRetryCalls, onRetryArgs, lastOutcome>>
    /\ UNCHANGED <<loopVars, uiVars, requests, urlVars>>

Next ==
    \/ CallClient
    \/ CallServer
    \/ ClientAttempt
    \/ ServerAttempt
    \/ Wake
    \/ LoopExit

Spec == Init /\ [][Next]_vars

---------------------------------------------------------------------------
(* Properties of the retry engine                                          *)

\* The most recent invocation of fn failed (lastError is its error).
LatestFailed == invocations >= 1 /\ lastError.at = invocations

\* A finished call is left only by a new call of withRetry.
OnlyNewCallFollows == pc' = "loop" /\ invocations' = 0 /\ waits' = 0

\* C1: with maxAttempts >= 1, one call of withRetry (either copy) never
\* invokes the wrapped operation more than maxAttempts times.
RetryCeiling ==
    config.maxAttempts >= 1 => invocations <= config.maxAttempts

RetryCeilingWitness ==
    /\ pc = "thrown"
    /\ config.maxAttempts >= 2
    /\ invocations = config.maxAttempts
    /\ waits = config.maxAttempts - 1

\* C2: when an attempt that is not the last allowed one fails with an error
\* the classifier calls terminal, withRetry throws that error at once: no
\* sleep and no observer call for it, and no later invocation in the call.
TerminalShortCircuitState ==
    (LatestFailed /\ invocations < config.maxAttempts /\ ~Classify(lastError))
        => /\ pc = "thrown"
           /\ raised = lastError
           /\ waits = invocations - 1
           /\ onRetryCalls = (IF observed THEN invocations - 1 ELSE 0)

TerminalShortCircuit ==
    /\ []TerminalShortCircuitState
    /\ [][pc = "thrown" => OnlyNewCallFollows]_vars

TerminalShortCircuitWitness ==
    /\ pc = "thrown"
    /\ config.maxAttempts = 3
    /\ invocations = 1
    /\ ~Classify(raised)
    /\ waits = 0
    /\ onRetryCalls = 0
    /\ observed

\* C3: whenever withRetry fails (maxAttempts >= 1) the error it throws is
\* the error of the most recent invocation of the operation.
LastErrorSurfaced ==
    (pc = "thrown" /\ config.maxAttempts >= 1)
        => /\ raised.at = invocations
           /\ raised = RunOperation(lastOutcome, invocations).error

LastErrorSurfacedWitness ==
    /\ pc = "thrown"
    /\ invocations = 3
    /\ raised.at = 3
    /\ Classify(raised)

\* C4: a call that succeeds on attempt k returns that invocation's value
\* after exactly k invocations and k-1 sleeps, 1 <= k <= maxAttempts, and
\* does nothing more afterwards.
SuccessOnAttemptKState ==
    pc = "returned"
        => /\ result = invocations
           /\ invocations = attempt + 1
           /\ waits = invocations - 1
           /\ invocations >= 1
           /\ invocations <= config.maxAttempts

SuccessOnAttemptK ==
    /\ []SuccessOnAttemptKState
    /\ [][pc = "returned" => OnlyNewCallFollows]_vars

SuccessOnAttemptKWitness ==
    /\ pc = "returned"
    /\ invocations = 3
    /\ waits = 2
    /\ result = 3
    /\ Classify(lastError)

\* C5: retryable failures are retried until maxAttempts invocations have
\* been made and no further: the call then throws after exactly maxAttempts
\* invocations and maxAttempts-1 sleeps, with no sleep and no observer call
\* after the final failure.
ExhaustionState ==
    (LatestFailed /\ Classify(lastError) /\ config.maxAttempts >= 1)
        => \/ /\ invocations < config.maxAttempts
              /\ pc \in {"sleeping", "loop"}
              /\ waits = invocations
              /\ onRetryCalls = (IF observed THEN invocations ELSE 0)
           \/ /\ invocations = config.maxAttempts
              /\ pc = "thrown"
              /\ raised = lastError
              /\ waits = config.maxAttempts - 1
              /\ onRetryCalls = (IF observed THEN config.maxAttempts - 1 ELSE 0)

Exhaustion ==
    /\ []ExhaustionState
    /\ [][pc = "thrown" => OnlyNewCallFollows]_vars

ExhaustionWitness ==
    /\ pc = "thrown"
    /\ config.maxAttempts = 3
    /\ invocations = 3
    /\ waits = 2
    /\ observed
    /\ onRetryCalls = 2
    /\ Classify(raised)

---------------------------------------------------------------------------
(* Properties of the classifiers                                           *)

ServerFault(status) == status = 429 \/ (status >= 500 /\ status <= 599)
ClientFault(status) == status \in {400, 401, 403}

\* The engine goes on to another attempt after the latest failure.
Retrying == pc \in {"sleeping", "loop"}

\* C6: in the client, an error made from a response with status 429 or 5xx
\* is classified retryable, and the request is sent again while attempts
\* remain.
OverloadRetryable ==
    (copy = "client" /\ LatestFailed /\ lastOutcome.type = "response"
        /\ ServerFault(lastOutcome.status))
        => /\ isRetryableError(lastError)
           /\ (invocations < config.maxAttempts => Retrying)

\* C7: in the client, a rejected fetch (no response received) is classified
\* retryable, and the request is sent again while attempts remain.
TransportRetryable ==
    (copy = "client" /\ LatestFailed /\ lastOutcome.type = "reject")
        => /\ lastError.kind = "TypeError"
           /\ isRetryableError(lastError)
           /\ (invocations < config.maxAttempts => Retrying)
           /\ (pc = "thrown" => invocations = config.maxAttempts)

TransportRetryableWitness ==
    /\ copy = "client"
    /\ lastOutcome.type = "reject"
    /\ pc = "sleeping"
    /\ invocations = 2
    /\ lastError.at = 2
    /\ config.maxAttempts = 3

\* C8: in the client, an error made from a response with status 400, 401 or
\* 403 is classified terminal whatever the body says, and the request is
\* not sent again.
ClientErrorsTerminal ==
    (copy = "client" /\ LatestFailed /\ lastOutcome.type = "response"
        /\ ClientFault(lastOutcome.status))
        => /\ ~isRetryableError(lastError)
           /\ pc = "thrown"

\* An error neither classifier has a rule for.
Words(msg) == {msg[i] : i \in DOMAIN msg}
TransientWords == {"429", "500", "503", "timeout", "ECONNREFUSED", "network"}

RecognisedByClient(e) ==
    \/ e.kind = "TypeError"
    \/ e.kind = "Error" /\ "status" \in Words(e.msg)

RecognisedByServer(e) ==
    /\ e.kind \in {"TypeError", "Error", "Object"}
    /\ Words(e.msg) \cap TransientWords # {}

Recognised(e) ==
    IF copy = "client" THEN RecognisedByClient(e) ELSE RecognisedByServer(e)

\* C9: an error the running classifier does not recognise (thrown values
\* that are no Error objects or carry no message included) is terminal: the
\* call throws it without another attempt.
UnrecognisedTerminal ==
    (LatestFailed /\ ~Recognised(lastError))
        => /\ ~Classify(lastError)
           /\ pc = "thrown"
           /\ raised = lastError

UnrecognisedTerminalWitness ==
    /\ copy = "server"
    /\ pc = "thrown"
    /\ invocations = 1
    /\ lastOutcome.type = "throw"
    /\ lastOutcome.thrown.kind = "String"
    /\ raised.kind = "String"

---------------------------------------------------------------------------
(* Properties of the backoff calculator                                    *)

\* C10: for a policy with initialDelay <= maxDelay and multiplier >= 1 the
\* delay before jitter is non-decreasing in the attempt index and never
\* above maxDelay.
BackoffMonotone ==
    (config.initialDelayMs <= config.maxDelayMs /\ config.backoffMultiplier >= 1)
        => \A k \in 0..MaxAttemptIndex :
              /\ cappedDelay(k, config) <= cappedDelay(k + 1, config)
              /\ cappedDelay(k, config) <= config.maxDelayMs

BackoffMonotoneWitness ==
    /\ pc = "sleeping"
    /\ attempt = 1
    /\ config.initialDelayMs <= config.maxDelayMs
    /\ config.backoffMultiplier >= 1
    /\ cappedDelay(0, config) < cappedDelay(1, config)
    /\ cappedDelay(1, config) = config.maxDelayMs
    /\ config.initialDelayMs * Pow(config.backoffMultiplier, 1) > config.maxDelayMs

Abs(x) == IF x >= 0 THEN x ELSE 0 - x

\* C11: for every attempt index and every value of the random source the
\* delay of calculateBackoffDelay is within 10% of the capped base delay and
\* is never negative; so is the delay of every sleep of the engine.
JitterBound ==
    /\ \A k \in 0..MaxAttemptIndex : \A r \in RandomTenths :
          /\ Abs(calculateBackoffDelay(k, config, r) - cappedDelay(k, config)) * 10
                <= cappedDelay(k, config)
          /\ calculateBackoffDelay(k, config, r) >= 0
    /\ pc = "sleeping"
          => /\ Abs(delay - cappedDelay(attempt, config)) * 10
                   <= cappedDelay(attempt, config)
             /\ delay >= 0

JitterBoundWitness ==
    /\ pc = "sleeping"
    /\ cappedDelay(attempt, config) > 0
    /\ delay * 10 = cappedDelay(attempt, config) * 9

\* The base of the j-th wait of a call, j = 1, 2, ...
ExpectedBase(j) ==
    LET exponential == config.initialDelayMs * Pow(config.backoffMultiplier, j - 1)
    IN  IF exponential <= config.maxDelayMs THEN exponential ELSE config.maxDelayMs

\* C12: the j-th wait of a call follows the failure of the attempt with
\* index j-1 and is computed from that index: its base is
\* min(initialDelay * multiplier^(j-1), maxDelay); with the default policy
\* the waits are about 500 ms, then about 1000 ms.
WaitFromSameIndex ==
    pc = "sleeping"
        => /\ waits = attempt + 1
           /\ Abs(delay - ExpectedBase(waits)) * 10 <= ExpectedBase(waits)
           /\ (config = DEFAULT_RETRY_CONFIG /\ waits = 1)
                 => (delay >= 450 /\ delay <= 550)
           /\ (config = DEFAULT_RETRY_CONFIG /\ waits = 2)
                 => (delay >= 900 /\ delay <= 1100)

WaitFromSameIndexWitness ==
    /\ pc = "sleeping"
    /\ copy = "client"
    /\ config = DEFAULT_RETRY_CONFIG
    /\ waits = 2
    /\ delay = 900

---------------------------------------------------------------------------
(* The loop controller                                                     *)

\* Largest requested step count of the model.
MaxLoops == 3

InitialSubjects == {"A"}
\* The nextSubject field of a /api/next-inquiry response; "" is empty/absent.
NextSubjectPayloads == {"", "B", "C"}
\* The summary field of a /api/research response.
Summaries == {"s1", "s2"}

NotProvidedMessage == <<"Next inquiry was not provided by the research service.">>

(* The API server: server/index.js *)

\* response.text of generateContent; " " stands for whitespace.
Whitespace == {"", " "}

\* String.prototype.trim on the texts of the model.
trimKeepsPadding(t) == t
trim(t) ==
    CASE t \in Whitespace -> ""
      [] t = " C "        -> "C"
      [] OTHER            -> t

\* What `await withRetry(() => ai.models.generateContent(...))` gives a
\* route: it throws, or it returns a response with this text.
\* "status" stands for a next subject whose text has the word status in it.
ResearchTexts == {"", " ", "s1", "s2"}
InquiryTexts == {"", " ", "B", " C ", "status"}

GeminiThrew == [threw |-> TRUE, text |-> ""]
GeminiSaid(t) == [threw |-> FALSE, text |-> t]

GeminiResults(op) ==
    {GeminiThrew}
        \cup {GeminiSaid(t) :
                 t \in IF op = "research" THEN ResearchTexts ELSE InquiryTexts}

\* res.status(st).json({error}) and res.json({summary, sources}) /
\* res.json({nextSubject}): the body a route answers with.
ErrorBody(words) ==
    [errorIsString |-> TRUE, error |-> words, summary |-> "", nextSubject |-> ""]
ResearchBody(summary) ==
    [errorIsString |-> FALSE, error |-> <<>>, summary |-> summary, nextSubject |-> ""]
NextInquiryBody(next) ==
    [errorIsString |-> FALSE, error |-> <<>>, summary |-> "", nextSubject |-> next]

Answer(status, body) == [status |-> status, body |-> body]

SummaryMissing == <<"Gemini", "did", "not", "return", "a", "summary.">>
NextInquiryMissing ==
    <<"Gemini", "could", "not", "determine", "the", "next", "inquiry.">>

\* app.post('/api/research')
researchRoute(subject, g) ==
    IF subject = ""
    THEN Answer(400, ErrorBody(<<"Subject", "is", "required.">>))
    ELSE IF g.threw
    THEN Answer(502, ErrorBody(<<"Failed", "to", "perform", "deep", "research",
                                 "on", subject>>))
    ELSE IF trim(g.text) = ""
    THEN Answer(502, ErrorBody(SummaryMissing))
    ELSE Answer(200, ResearchBody(g.text))

\* app.post('/api/next-inquiry')
nextInquiryRoute(summary, g) ==
    IF summary = ""
    THEN Answer(400, ErrorBody(<<"Summary", "is", "required.">>))
    ELSE IF g.threw
    THEN Answer(502, ErrorBody(<<"Failed", "to", "find", "the", "next",
                                 "thread", "of", "inquiry.">>))
    ELSE IF trim(g.text) = ""
    THEN Answer(502, ErrorBody(NextInquiryMissing))
    ELSE Answer(200, NextInquiryBody(trim(g.text)))

\* What a fetch of the client gives when the API server is server/index.js:
\* no response, or the answer of the route to the Gemini result.
BackendOutcomes(op, arg) ==
    {MkOutcome("reject", 0, NoBody, NoThrown)}
        \cup {LET a == IF op = "research" THEN researchRoute(arg, g)
                       ELSE nextInquiryRoute(arg, g)
              IN MkOutcome("response", a.status, a.body, NoThrown) :
                 g \in GeminiResults(op)}

\* data.summary / data.nextSubject of the body withRetry returned: the
\* field of a route's answer; any value for the bodies of other services.
ReceivedSummaries ==
    IF "summary" \in DOMAIN lastOutcome.body
    THEN {lastOutcome.body.summary} ELSE Summaries

ReceivedNextSubjects ==
    IF "nextSubject" \in DOMAIN lastOutcome.body
    THEN {lastOutcome.body.nextSubject} ELSE NextSubjectPayloads

\* A service call of the session: op is "research" or "inquiry", arg its
\* argument, at the step it was made in; state is "pending" while it is in
\* flight, then "resolved" (ret is the value), "empty" (the backend gave no
\* next subject and findNextInquiry threw) or "rejected".
MkCall(op, arg, at) ==
    [op |-> op, arg |-> arg, step |-> at, state |-> "pending", ret |-> ""]

\* The withRetry call of the last service call has settled.
Settle(log, state, ret) ==
    [log EXCEPT ![Len(log)] = [@ EXCEPT !.state = state, !.ret = ret]]

\* `await`: the continuation runs when the awaited call has returned, or
\* its catch when it has thrown.
awaitedWithoutWaiting(p) == TRUE
awaited(p) == p = "returned"
awaitThrewUnhandled(p) == FALSE
awaitThrew(p) == p = "thrown"

\* How the last call of the log settles, as the engine shows it.
SettledAs(label) == IF pc \in {"returned", "thrown"} THEN label ELSE "pending"

\* performDeepResearch / findNextInquiry enter withRetry with the default
\* policy and no observer.
BeginCall(op, arg, at, log) ==
    /\ Enter("client", DEFAULT_RETRY_CONFIG, FALSE)
    /\ calls' = Append(log, MkCall(op, arg, at))

\* The locals of withRetry are gone once the session has ended.
EngineReset ==
    /\ copy' = "client"
    /\ config' = DEFAULT_RETRY_CONFIG
    /\ observed' = FALSE
    /\ pc' = "idle"
    /\ attempt' = 0
    /\ lastError' = Undefined
    /\ raised' = Undefined
    /\ result' = 0
    /\ delay' = 0
    /\ invocations' = 0
    /\ waits' = 0
    /\ onRetryCalls' = 0
    /\ onRetryArgs' = NoArgs
    /\ lastOutcome' = NoOutcome

\* `if (i < loops)` (web), `if (step === loopCount) break` (cli)
needsNextInquiryAlways(i, n) == i <= n
needsNextInquiry(i, n) == i < n

\* The ResearchStep object appended for step i.
newStepZeroBased(i, subject, summary, next) ==
    [id |-> i - 1, subject |-> subject, summary |-> summary, nextSubject |-> next]
newStepWithoutNext(i, subject, summary, next) ==
    [id |-> i, subject |-> subject, summary |-> summary, nextSubject |-> ""]
newStep(i, subject, summary, next) ==
    [id |-> i, subject |-> subject, summary |-> summary, nextSubject |-> next]

\* `setResearchSteps(prev => [...prev, newStep])`; the CLI prints the step.
setResearchStepsReplacing(prev, s) == <<s>>
setResearchStepsTwice(prev, s) == Append(Append(prev, s), s)
setResearchSteps(prev, s) == Append(prev, s)

\* `currentSubject = nextSubject`
keepSubject(cur, next) == cur
advanceSubject(cur, next) == next

\* The exit status of the CLI: process.exit(1) in the outer catch (the
\* research failed), 0 when main returns after the inner catch (the inquiry
\* failed) or after the loop.
exitStatusSwapped(after) == IF after = "inquiry" THEN 1 ELSE 0
exitStatus(after) == IF after = "research" THEN 1 ELSE 0

\* process.exit(1) does not return: the for loop of main does not go on.
processExitReturnsToLoop == TRUE
processExitReturns == FALSE

\* Start of a session: handleStartResearch(subject, loops) in the web UI,
\* main() in the CLI, up to the first performDeepResearch(currentSubject).
StartSession(subject, n) ==
    /\ loops' = n
    /\ step' = 1
    /\ currentSubject' = subject
    /\ steps' = <<>>
    /\ session' = "RunningStep"
    /\ termination' = "none"
    /\ cause' = Undefined
    /\ errorShown' = FALSE
    /\ exitCode' = -1
    /\ BeginCall("research", subject, 1, <<>>)
    /\ requests' = 0
    /\ IF ui = "web"
       THEN /\ isLoading' = TRUE          \* setIsLoading(true)
            /\ errorStep' = -1           \* setError(null)
            /\ currentStep' = 1          \* setCurrentStep(i)
            /\ captured' = currentStep   \* the handler of the latest render
       ELSE UNCHANGED uiVars
    /\ UNCHANGED <<ui, urlVars>>

(* The requested step count: --loops of the CLI, the loops field of the form *)

\* The largest loop count a caller accepts.
MaxLoopCount == 10

Digits == {"0", "1", "2", "3", "4", "5", "6", "7", "8", "9"}

DigitChar == <<"1", "2", "3", "4", "5", "6", "7", "8", "9">>

DigitValue(c) == IF c = "0" THEN 0 ELSE CHOOSE k \in 1..9 : DigitChar[k] = c

\* The texts given as the value of --loops / typed into the loops field,
\* as sequences of characters; <<>> is an empty or a missing value.
LoopValues ==
    {<<>>, <<"0">>, <<"-", "1">>, <<"a">>, <<"1", "1">>, <<"2", "a">>,
     <<"2", ".", "5">>}
        \cup {<<DigitChar[k]>> : k \in 1..MaxLoops}

NaN == [nan |-> TRUE, n |-> 0]
Number(n) == [nan |-> FALSE, n |-> n]

RECURSIVE leadingDigits(_, _)
leadingDigits(v, acc) ==
    IF v = <<>> \/ Head(v) \notin Digits THEN acc
    ELSE leadingDigits(Tail(v), acc * 10 + DigitValue(Head(v)))

\* Number.parseInt(value, 10): an optional sign and the leading digits.
parseInt(v) ==
    LET negative == v # <<>> /\ Head(v) = "-"
        rest == IF negative THEN Tail(v) ELSE v
    IN  IF rest = <<>> \/ Head(rest) \notin Digits THEN NaN
        ELSE Number((IF negative THEN -1 ELSE 1) * leadingDigits(rest, 0))

\* cli parseLoopValue: the loop count, or NaN when it calls process.exit(1).
parseLoopValueUnlimited(value) ==
    IF value = <<>> THEN NaN
    ELSE IF parseInt(value).nan THEN NaN
    ELSE IF parseInt(value).n < 1 THEN NaN
    ELSE parseInt(value)
parseLoopValue(value) ==
    IF value = <<>> THEN NaN
    ELSE IF parseInt(value).nan THEN NaN
    ELSE IF parseInt(value).n < 1 THEN NaN
    ELSE IF parseInt(value).n > MaxLoopCount THEN NaN
    ELSE parseInt(value)

\* The arguments of the CLI: no --loops option (loopCount keeps its default
\* of 1) or --loops with a value.
NoLoopsOption == [given |-> FALSE, value |-> <<>>]
LoopOptions == {NoLoopsOption} \cup {[given |-> TRUE, value |-> v] : v \in LoopValues}

loopCountOf(option) ==
    IF option.given THEN parseLoopValue(option.value) ELSE Number(1)

\* InputForm onChange: setLoops(parseInt(e.target.value, 10) || 1)
setLoops(typed) ==
    IF parseInt(typed).nan \/ parseInt(typed).n = 0 THEN 1 ELSE parseInt(typed).n

\* The loops field is <input type="number" min="1" max="10">: the form is
\* not submitted while its value is out of that range.
rangeValid(n) == n >= 1 /\ n <= MaxLoopCount

\* InputForm handleSubmit: `if (subject.trim() && loops > 0 && !isLoading)`
handleSubmitWhileLoading(subject, n, loading) == subject # "" /\ n > 0
handleSubmit(subject, n, loading) == subject # "" /\ n > 0 /\ ~loading

\* The form is submitted and App's handleStartResearch(subject, loops) runs;
\* nothing happens when the form does not let the submission through.
handleStartResearch ==
    /\ ui = "web"
    /\ \E subject \in InitialSubjects, typed \in LoopValues :
          IF /\ rangeValid(setLoops(typed))
             /\ handleSubmit(subject, setLoops(typed), isLoading)
          THEN StartSession(subject, setLoops(typed))
          ELSE UNCHANGED vars

\* main of the CLI: the arguments are parsed, then the loop starts; an
\* invalid --loops value ends the process with status 1.
main ==
    /\ ui = "cli"
    /\ session = "Ready"
    /\ exitCode = -1
    /\ \E subject \in InitialSubjects, option \in LoopOptions :
          IF loopCountOf(option).nan
          THEN /\ exitCode' = 1
               /\ UNCHANGED <<engineVars, uiVars, requests, urlVars, ui,
                              session, loops, step, currentSubject,
                              steps, calls, termination, cause, errorShown>>
          ELSE StartSession(subject, loopCountOf(option).n)

\* One request of the service call in flight: fetch(...).then(handleResponse)
\* under withRetry.
ServiceAttempt ==
    /\ session \in {"RunningStep", "AwaitingNextSubject"}
    /\ pc = "loop"
    /\ attempt < AttemptLimit(config)
    /\ \E o \in FetchOutcomes, r \in RandomTenths : Iteration(o, r)
    /\ UNCHANGED <<loopVars, uiVars, requests, urlVars>>

\* finally: `setIsLoading(false); setCurrentStep(0);`
finallyBlockKeepsLoading == [isLoading |-> TRUE, currentStep |-> 0]
finallyBlock == [isLoading |-> FALSE, currentStep |-> 0]

\* The session ends: the loop is left (web: the catch block has set the
\* error text, if an await threw, and the finally block has run).
EndSession(state, reason, e, shown, code) ==
    /\ session' = state
    /\ termination' = reason
    /\ cause' = e
    /\ errorShown' = shown
    /\ exitCode' = code
    /\ EngineReset
    /\ IF ui = "web"
       THEN /\ errorStep' = IF shown THEN captured ELSE errorStep
            /\ isLoading' = finallyBlock.isLoading
            /\ currentStep' = finallyBlock.currentStep
       ELSE UNCHANGED <<errorStep, isLoading, currentStep>>
    /\ UNCHANGED <<captured, requests, urlVars, ui, loops, step, currentSubject>>

\* The for header after `i++` / `step += 1`: the next step starts, or the
\* loop is left because the step count is used up.
NextStep(subject, log) ==
    IF step + 1 <= loops
    THEN /\ session' = "RunningStep"
         /\ step' = step + 1
         /\ currentSubject' = subject
         /\ BeginCall("research", subject, step + 1, log)
         /\ currentStep' = IF ui = "web" THEN step + 1 ELSE currentStep
         /\ UNCHANGED <<isLoading, captured, errorStep, requests, urlVars, ui,
                        loops, termination, cause, errorShown, exitCode>>
    ELSE /\ EndSession("Completed", "exhaustedRequestedSteps", Undefined, FALSE,
                       IF ui = "cli" THEN exitStatus("done") ELSE -1)
         /\ calls' = log

\* The summary of the step's research result while its inquiry is made.
ResearchSummary(log) == log[Len(log) - 1].ret

\* findNextInquiry: `if (!data.nextSubject) throw new Error(...)`.
NotProvidedAsServiceError ==
    MkError("Error", <<"The", "research", "service", "returned", "an", "error">>, 0, 0)
NotProvidedError == MkError("Error", NotProvidedMessage, 0, 0)

(* Web UI: App.tsx handleStartResearch *)

\* `await performDeepResearch(currentSubject)` returned.
WebResearchResolved ==
    /\ ui = "web"
    /\ session = "RunningStep"
    /\ awaited(pc)
    /\ \E summary \in ReceivedSummaries :
          LET log == Settle(calls, SettledAs("resolved"), summary) IN
          IF needsNextInquiry(step, loops)
          THEN /\ session' = "AwaitingNextSubject"
               /\ BeginCall("inquiry", summary, step, log)
               /\ UNCHANGED <<uiVars, requests, urlVars, ui, loops, step,
                              currentSubject, steps,
                              termination, cause, errorShown, exitCode>>
          ELSE \* nextSubject stays null: the step is appended, then `break`
               /\ steps' = setResearchSteps(steps, newStep(step, currentSubject, summary, ""))
               /\ calls' = log
               /\ EndSession("Completed",
                             IF step = loops THEN "exhaustedRequestedSteps"
                             ELSE "noNextSubject",
                             Undefined, FALSE, -1)

\* An await of the try block threw: catch sets the error, finally runs.
WebCatch(e, log) ==
    /\ calls' = log
    /\ UNCHANGED steps
    /\ EndSession("Aborted", "error", e, TRUE, -1)

WebResearchFailed ==
    /\ ui = "web"
    /\ session = "RunningStep"
    /\ awaitThrew(pc)
    /\ WebCatch(raised, Settle(calls, SettledAs("rejected"), ""))

\* `await findNextInquiry(researchResult.summary)` settled after withRetry
\* returned: it throws on an empty nextSubject, else the step is appended
\* and the loop goes on with the next subject.
WebInquiryResolved ==
    /\ ui = "web"
    /\ session = "AwaitingNextSubject"
    /\ awaited(pc)
    /\ \E next \in ReceivedNextSubjects :
          IF next = ""
          THEN WebCatch(NotProvidedError, Settle(calls, "empty", ""))
          ELSE /\ steps' = setResearchSteps(steps, newStep(step, currentSubject,
                                                 ResearchSummary(calls), next))
               /\ NextStep(advanceSubject(currentSubject, next),
                           Settle(calls, "resolved", next))

WebInquiryFailed ==
    /\ ui = "web"
    /\ session = "AwaitingNextSubject"
    /\ awaitThrew(pc)
    /\ WebCatch(raised, Settle(calls, SettledAs("rejected"), ""))

(* CLI: cli main *)

\* `await performDeepResearch(currentSubject, ...)` returned: the summary
\* is printed, then `if (step === loopCount) break` or findNextInquiry.
CliResearchResolved ==
    /\ ui = "cli"
    /\ session = "RunningStep"
    /\ awaited(pc)
    /\ \E summary \in ReceivedSummaries :
          LET log == Settle(calls, SettledAs("resolved"), summary) IN
          /\ steps' = setResearchSteps(steps, newStep(step, currentSubject, summary, ""))
          /\ IF needsNextInquiry(step, loops)
             THEN /\ session' = "AwaitingNextSubject"
                  /\ BeginCall("inquiry", summary, step, log)
                  /\ UNCHANGED <<uiVars, requests, urlVars, ui, loops, step,
                                 currentSubject,
                                 termination, cause, errorShown, exitCode>>
             ELSE /\ calls' = log
                  /\ EndSession("Completed", "exhaustedRequestedSteps",
                                Undefined, FALSE, exitStatus("done"))

\* The outer catch: console.error, process.exit(1).
CliResearchFailed ==
    /\ ui = "cli"
    /\ session = "RunningStep"
    /\ awaitThrew(pc)
    /\ UNCHANGED steps
    /\ IF processExitReturns /\ step + 1 <= loops
       THEN /\ session' = "Aborted"
            /\ termination' = "error"
            /\ cause' = raised
            /\ exitCode' = exitStatus("research")
            /\ step' = step + 1
            /\ BeginCall("research", currentSubject, step + 1,
                         Settle(calls, SettledAs("rejected"), ""))
            /\ UNCHANGED <<uiVars, requests, urlVars, ui, loops, currentSubject,
                           errorShown>>
       ELSE /\ calls' = Settle(calls, SettledAs("rejected"), "")
            /\ EndSession("Aborted", "error", raised, FALSE, exitStatus("research"))

\* The inner catch: both branches log and `break`; main returns.
CliInnerCatch(e, log) ==
    /\ calls' = log
    /\ UNCHANGED steps
    /\ EndSession("Completed",
                  IF Includes(MessageOf(e), NotProvidedMessage[1])
                  THEN "noNextSubject" ELSE "nextInquiryFailed",
                  e, FALSE, exitStatus("inquiry"))

CliInquiryResolved ==
    /\ ui = "cli"
    /\ session = "AwaitingNextSubject"
    /\ awaited(pc)
    /\ \E next \in ReceivedNextSubjects :
          IF next = ""
          THEN CliInnerCatch(NotProvidedError, Settle(calls, "empty", ""))
          ELSE /\ UNCHANGED steps
               /\ NextStep(advanceSubject(currentSubject, next),
                           Settle(calls, "resolved", next))

CliInquiryFailed ==
    /\ ui = "cli"
    /\ session = "AwaitingNextSubject"
    /\ awaitThrew(pc)
    /\ CliInnerCatch(raised, Settle(calls, SettledAs("rejected"), ""))

LoopInit ==
    /\ EngineIdle
    /\ ui \in {"web", "cli"}
    /\ LoopIdle
    /\ UrlIdle

LoopNext ==
    \/ handleStartResearch
    \/ main
    \/ ServiceAttempt
    \/ Wake
    \/ WebResearchResolved
    \/ WebResearchFailed
    \/ WebInquiryResolved
    \/ WebInquiryFailed
    \/ CliResearchResolved
    \/ CliResearchFailed
    \/ CliInquiryResolved
    \/ CliInquiryFailed

LoopSpec == LoopInit /\ [][LoopNext]_vars

\* What happens without the user: a request in flight returns or fails, the
\* timer of a sleep fires, the continuation of a settled await runs.
Progress ==
    \/ ServiceAttempt
    \/ Wake
    \/ WebResearchResolved
    \/ WebResearchFailed
    \/ WebInquiryResolved
    \/ WebInquiryFailed
    \/ CliResearchResolved
    \/ CliResearchFailed
    \/ CliInquiryResolved
    \/ CliInquiryFailed

\* The controllers when every request eventually returns or fails.
LiveLoopSpec == LoopInit /\ [][LoopNext]_vars /\ WF_vars(Progress)

(* The controllers with server/index.js as the API server *)

\* One request of the service call in flight is sent to the server, which
\* answers it or is not reached.
BackendAttempt ==
    /\ session \in {"RunningStep", "AwaitingNextSubject"}
    /\ pc = "loop"
    /\ attempt < AttemptLimit(config)
    /\ \E o \in BackendOutcomes(calls[Len(calls)].op, calls[Len(calls)].arg),
          r \in RandomTenths : Iteration(o, r)
    /\ requests' = requests + 1
    /\ UNCHANGED <<loopVars, uiVars, urlVars>>

BackendNext ==
    \/ handleStartResearch
    \/ main
    \/ BackendAttempt
    \/ Wake
    \/ WebResearchResolved
    \/ WebResearchFailed
    \/ WebInquiryResolved
    \/ WebInquiryFailed
    \/ CliResearchResolved
    \/ CliResearchFailed
    \/ CliInquiryResolved
    \/ CliInquiryFailed

BackendSpec == LoopInit /\ [][BackendNext]_vars

---------------------------------------------------------------------------
(* resolveApiUrl                                                           *)

\* Texts are sequences of tokens: " " is whitespace, "/" a slash, "https:"
\* and "http:" a URL scheme with its colon, ":" a colon; the other tokens
\* are runs of letters, digits and dots.

\* Most trailing slashes a configured base ends with.
MaxSlashes == 2

\* VITE_API_BASE_URL without the whitespace around it and without its
\* trailing slashes: nothing, relative bases, absolute bases.
BaseCores ==
    { <<>>,
      <<"/", "api">>,
      <<"api">>,
      <<"/", ".netlify", "/", "functions">>,
      <<"/", "/", "host">>,
      <<"https:", "/", "/", "host">>,
      <<"https:", "/", "/", "host", "/", "v1">> }

RECURSIVE Repeat(_, _)
Repeat(token, n) == IF n = 0 THEN <<>> ELSE <<token>> \o Repeat(token, n - 1)

\* The values of VITE_API_BASE_URL: <<>> is unset (or the empty string).
Bases ==
    { Repeat(" ", lead) \o core \o Repeat("/", n) \o Repeat(" ", trail) :
          lead \in 0..1, core \in BaseCores, n \in 0..MaxSlashes, trail \in 0..1 }

\* The values of PORT: <<>> is unset.
Ports == {<<>>, <<"5001">>}

Envs == [base : Bases, port : Ports]

Paths == {<<"/", "api", "/", "research">>, <<"/", "api", "/", "next-inquiry">>}

\* String.prototype.trim
RECURSIVE trimStart(_)
trimStart(t) == IF t # <<>> /\ Head(t) = " " THEN trimStart(Tail(t)) ELSE t

RECURSIVE trimEnd(_)
trimEnd(t) ==
    IF t # <<>> /\ t[Len(t)] = " " THEN trimEnd(SubSeq(t, 1, Len(t) - 1)) ELSE t

trimText(t) == trimEnd(trimStart(t))

\* `while (normalizedBase.endsWith('/')) normalizedBase = normalizedBase.slice(0, -1)`
RECURSIVE normalizeBase(_)
normalizeBaseOnce(t) ==
    IF t # <<>> /\ t[Len(t)] = "/" THEN SubSeq(t, 1, Len(t) - 1) ELSE t
normalizeBase(t) ==
    IF t # <<>> /\ t[Len(t)] = "/" THEN normalizeBase(SubSeq(t, 1, Len(t) - 1))
    ELSE t

\* /^[a-zA-Z][a-zA-Z0-9+.-]*:\/\//.test(t)
hasScheme(t) ==
    /\ Len(t) >= 3
    /\ t[1] \in {"https:", "http:"}
    /\ t[2] = "/"
    /\ t[3] = "/"

\* resolveEnvValue('PORT') || '4000'
fallbackPort(e) == IF e.port # <<>> THEN e.port ELSE <<"4000">>

fallbackBase(e) == <<"http:", "/", "/", "localhost", ":">> \o fallbackPort(e)

\* new URL(t, base).toString() for a base that is an origin and a t without
\* dot segments: an absolute t stands, //host/... takes the scheme of the
\* base, /... its origin, and anything else is a path under its root.
newURL(t, base) ==
    IF hasScheme(t) THEN t
    ELSE IF Len(t) >= 2 /\ t[1] = "/" /\ t[2] = "/" THEN <<base[1]>> \o t
    ELSE IF t # <<>> /\ t[1] = "/" THEN base \o t
    ELSE base \o <<"/">> \o t

resolveApiUrl(p, e, isBrowser) ==
    IF e.base # <<>> /\ trimText(e.base) # <<>>
    THEN LET resolvedPath == normalizeBase(trimText(e.base)) \o p IN
         IF isBrowser THEN resolvedPath
         ELSE IF hasScheme(resolvedPath) THEN resolvedPath
         ELSE newURL(resolvedPath, fallbackBase(e))
    ELSE IF isBrowser THEN p
    ELSE newURL(p, fallbackBase(e))

\* typeof window !== 'undefined' && typeof window.location !== 'undefined'
isBrowser == ui = "web"

\* performDeepResearch / findNextInquiry resolve the URL of their request.
ResolveResearchUrl ==
    /\ path' = <<"/", "api", "/", "research">>
    /\ url' = resolveApiUrl(path', env, isBrowser)
    /\ UNCHANGED <<engineVars, loopVars, uiVars, requests, env>>

ResolveNextInquiryUrl ==
    /\ path' = <<"/", "api", "/", "next-inquiry">>
    /\ url' = resolveApiUrl(path', env, isBrowser)
    /\ UNCHANGED <<engineVars, loopVars, uiVars, requests, env>>

UrlInit ==
    /\ EngineIdle
    /\ ui \in {"web", "cli"}
    /\ LoopIdle
    /\ env \in Envs
    /\ path = <<>>
    /\ url = <<>>

UrlNext ==
    \/ ResolveResearchUrl
    \/ ResolveNextInquiryUrl

UrlSpec == UrlInit /\ [][UrlNext]_vars

---------------------------------------------------------------------------
(* Properties of the loop controller                                       *)

Ended == session \in {"Completed", "Aborted"}

CallsOf(op) == SelectSeq(calls, LAMBDA c : c.op = op)

LastCall == calls[Len(calls)]

\* C13: in every session that has ended the recorded steps are numbered
\* consecutively from 1 in invocation order: the step at position j (from 1)
\* has id j and is the step of the j-th Research call.
SessionOrdering ==
    Ended
        => /\ \A j \in 1..Len(steps) :
                 /\ steps[j].id = j
                 /\ CallsOf("research")[j].step = j
                 /\ CallsOf("research")[j].state = "resolved"
                 /\ steps[j].subject = CallsOf("research")[j].arg
                 /\ steps[j].summary = CallsOf("research")[j].ret
           /\ Len(steps) <= Len(CallsOf("research"))

SessionOrderingWitness ==
    /\ ui = "web"
    /\ session = "Aborted"
    /\ Len(steps) = 2
    /\ steps[2].id = 2
    /\ steps[2].subject # steps[1].subject

\* C14: if Research succeeded at steps 1..k and the backend gave an empty
\* next subject at step k < requestedStepCount, the session ends without
\* error with exactly k steps and reason noNextSubject, and step k+1 is not
\* attempted.
NoNextSubjectPreserved ==
    (Ended /\ Len(calls) >= 1 /\ LastCall.state = "empty")
        => /\ session = "Completed"
           /\ termination = "noNextSubject"
           /\ Len(steps) = LastCall.step
           /\ ~errorShown
           /\ exitCode # 1

\* C15: if Next-Inquiry fails at step i the session completes early: the
\* steps whose Research succeeded, step i included, stay in the session and
\* the run is not a hard failure (the CLI exits with status 0).
InquiryFailurePreserved ==
    (Ended /\ Len(calls) >= 1 /\ LastCall.op = "inquiry"
        /\ LastCall.state = "rejected")
        => /\ session = "Completed"
           /\ Len(steps) = LastCall.step
           /\ ~errorShown
           /\ (ui = "cli" => exitCode = 0)

\* C16: if Research fails at step i the session is aborted with that error
\* as its cause: the failed Research is the last service call of the
\* session, and the caller sees a hard failure (web: the error is shown,
\* CLI: exit status 1).
ResearchFailureAborts ==
    /\ \A j \in 1..Len(calls) :
          (calls[j].op = "research" /\ calls[j].state = "rejected")
              => /\ j = Len(calls)
                 /\ session = "Aborted"
    /\ (Ended /\ Len(calls) >= 1 /\ LastCall.op = "research"
          /\ LastCall.state = "rejected")
          => /\ session = "Aborted"
             /\ cause # Undefined
             /\ cause.at >= 1
             /\ Len(steps) = LastCall.step - 1
             /\ (ui = "web" => errorShown)
             /\ (ui = "cli" => exitCode = 1)

ResearchFailureAbortsWitness ==
    /\ ui = "cli"
    /\ session = "Aborted"
    /\ exitCode = 1
    /\ loops = 3
    /\ Len(calls) = 3
    /\ LastCall.op = "research"
    /\ LastCall.state = "rejected"
    /\ Len(steps) = 1

AllResolved == \A j \in 1..Len(calls) : calls[j].state = "resolved"

\* C17: in a session with requestedStepCount = N where every operation
\* succeeds with a non-empty next subject, Research is invoked N times and
\* Next-Inquiry N-1 times, never after the Research of step N, and the
\* session ends with reason exhaustedRequestedSteps.
ExhaustsRequestedSteps ==
    /\ \A j \in 1..Len(calls) : calls[j].op = "inquiry" => calls[j].step < loops
    /\ (Ended /\ AllResolved)
          => /\ session = "Completed"
             /\ termination = "exhaustedRequestedSteps"
             /\ Len(CallsOf("research")) = loops
             /\ Len(CallsOf("inquiry")) = loops - 1
             /\ LastCall.op = "research"
             /\ LastCall.step = loops
             /\ Len(steps) = loops

ExhaustsRequestedStepsWitness ==
    /\ session = "Completed"
    /\ AllResolved
    /\ loops = 3
    /\ Len(calls) = 5
    /\ termination = "exhaustedRequestedSteps"

\* C18: Research at step 1 is invoked with the initial subject, Research at
\* step i+1 with the subject Next-Inquiry returned at step i, and
\* Next-Inquiry at step i with the summary Research returned at step i.
SubjectChaining ==
    \A j \in 1..Len(calls) :
        /\ (j = 1) => /\ calls[j].op = "research"
                      /\ calls[j].step = 1
                      /\ calls[j].arg \in InitialSubjects
        /\ (j > 1 /\ calls[j].op = "research")
              => /\ calls[j - 1].op = "inquiry"
                 /\ calls[j - 1].state = "resolved"
                 /\ calls[j - 1].step + 1 = calls[j].step
                 /\ calls[j].arg = calls[j - 1].ret
        /\ (calls[j].op = "inquiry")
              => /\ j > 1
                 /\ calls[j - 1].op = "research"
                 /\ calls[j - 1].state = "resolved"
                 /\ calls[j - 1].step = calls[j].step
                 /\ calls[j].arg = calls[j - 1].ret

SubjectChainingWitness ==
    /\ Len(calls) = 4
    /\ calls[1].ret = "s2"
    /\ calls[2].arg = "s2"
    /\ calls[2].ret = "C"
    /\ calls[3].arg = "C"
    /\ calls[3].ret = "s1"
    /\ calls[4].arg = "s1"

Active == session \in {"RunningStep", "AwaitingNextSubject"}

InFlight == {j \in 1..Len(calls) : calls[j].state = "pending"}

\* C19: within a session at most one backend operation, retries included,
\* is in flight at any time (it is the last call made, and the session
\* waits for it), and the Research of step i+1 starts only after the
\* Research and the Next-Inquiry of step i have both resolved.
SingleFlow ==
    /\ Cardinality(InFlight) <= 1
    /\ \A j \in InFlight :
          /\ j = Len(calls)
          /\ Active
          /\ pc \in {"loop", "sleeping", "returned", "thrown"}
          /\ calls[j].op = IF session = "RunningStep" THEN "research" ELSE "inquiry"
    /\ Active => InFlight # {}
    /\ \A j \in 1..Len(calls) :
          (calls[j].op = "research" /\ calls[j].step > 1)
              => /\ j > 2
                 /\ calls[j - 2].op = "research"
                 /\ calls[j - 2].step = calls[j].step - 1
                 /\ calls[j - 2].state = "resolved"
                 /\ calls[j - 1].op = "inquiry"
                 /\ calls[j - 1].step = calls[j].step - 1
                 /\ calls[j - 1].state = "resolved"

SingleFlowWitness ==
    /\ session = "AwaitingNextSubject"
    /\ pc = "sleeping"
    /\ attempt >= 1
    /\ Len(calls) = 4
    /\ calls[3].step = 2
    /\ InFlight = {4}

\* A new session of the web UI: handleStartResearch empties the step list
\* and makes the first Research call of the new session.
NewSessionStarts ==
    /\ ui = "web"
    /\ session' = "RunningStep"
    /\ steps' = <<>>
    /\ step' = 1
    /\ Len(calls') = 1
    /\ calls'[1].state = "pending"

\* C20: once a session has reached Completed or Aborted nothing more
\* happens in it: no backend operation is in flight or invoked, and its
\* steps, its calls, its state, its reason and its cause stay as they are
\* (the web UI may only start a new session from scratch).
TerminalIsFinal ==
    /\ [](Ended => (pc = "idle" /\ InFlight = {}))
    /\ [][Ended => \/ UNCHANGED <<steps, calls, session, termination, cause,
                                  exitCode, errorShown, invocations>>
                   \/ NewSessionStarts]_vars

TerminalIsFinalWitness ==
    /\ ui = "cli"
    /\ session = "Completed"
    /\ termination = "nextInquiryFailed"
    /\ Len(steps) = 2
    /\ Len(calls) = 4
    /\ exitCode = 0

---------------------------------------------------------------------------
(* Properties of the controllers with server/index.js as the API server    *)

\* The session ended on a Next-Inquiry for which Gemini produced an empty
\* next subject: the server's answer to that is the cause, or the client
\* found the nextSubject field empty.
EndedOnEmptyNextSubject ==
    /\ Ended
    /\ Len(calls) >= 1
    /\ LastCall.op = "inquiry"
    /\ \/ LastCall.state = "empty"
       \/ /\ LastCall.state = "rejected"
          /\ cause.msg = nextInquiryRoute(LastCall.arg, GeminiSaid("")).body.error

\* The session ended on a Next-Inquiry call that failed: no response, or
\* Gemini threw on the server.
EndedOnFailedNextInquiry ==
    /\ Ended
    /\ Len(calls) >= 1
    /\ LastCall.op = "inquiry"
    /\ LastCall.state = "rejected"
    /\ cause.msg # nextInquiryRoute(LastCall.arg, GeminiSaid("")).body.error

\* C21: an empty next subject and a failed Next-Inquiry call lead to
\* distinct outcomes: a session that ends because Gemini produced an empty
\* next subject ends as noNextSubject, and one that ends because the call
\* failed ends as nextInquiryFailed.
DistinctEndings ==
    /\ EndedOnEmptyNextSubject => termination = "noNextSubject"
    /\ EndedOnFailedNextInquiry => termination = "nextInquiryFailed"

---------------------------------------------------------------------------
(* Properties of the callers                                               *)

Started == session # "Ready" \/ calls # <<>>

\* C22: a session never begins, and no backend call is made, with a step
\* count below 1 or above 10 (or none at all); when the CLI rejects the
\* value of --loops it exits with status 1 and has made no backend call.
ValidatedStepCount ==
    /\ Started => loops \in 1..MaxLoopCount
    /\ \A j \in 1..Len(calls) : calls[j].step \in 1..MaxLoopCount
    /\ (ui = "cli" /\ ~Started) => exitCode \in {-1, 1}
    /\ (ui = "web" /\ ~Started) => exitCode = -1

ValidatedStepCountWitness ==
    /\ ui = "cli"
    /\ ~Started
    /\ exitCode = 1
    /\ calls = <<>>

---------------------------------------------------------------------------
(* Properties of the retry observer and of the service operations          *)

\* C23: on every retry the observer receives the 1-based number of the
\* attempt that just failed, that attempt's error, and the delay, and the
\* delay it receives is the duration of the wait that follows.
ObserverArguments ==
    (pc = "sleeping" /\ observed)
        => /\ onRetryCalls >= 1
           /\ onRetryArgs.attempt = attempt + 1
           /\ onRetryArgs.errorAt = invocations
           /\ onRetryArgs.errorAt = lastError.at
           /\ onRetryArgs.hasDelay
           /\ onRetryArgs.delay = delay

\* The latest request was a Research request that Gemini answered with a
\* missing, empty or blank summary.
SummaryWasMissing ==
    /\ pc # "idle"
    /\ Len(calls) >= 1
    /\ LastCall.op = "research"
    /\ \E t \in ResearchTexts :
          /\ t \in Whitespace
          /\ lastOutcome.type = "response"
          /\ Answer(lastOutcome.status, lastOutcome.body)
                = researchRoute(LastCall.arg, GeminiSaid(t))

EmptyNextSubjectFound ==
    /\ session = "AwaitingNextSubject"
    /\ Len(calls') = Len(calls)
    /\ calls'[Len(calls)].state = "empty"

\* C25: given a successful response whose nextSubject is empty or missing,
\* findNextInquiry fails with the error 'Next inquiry was not provided by
\* the research service.'; the response is the one of the latest request,
\* one request was sent per attempt (exactly one when the first attempt got
\* that response), and the call sends no request after it.
NotProvidedWithoutRetry ==
    [][EmptyNextSubjectFound
          => /\ pc = "returned"
             /\ lastOutcome.type = "response"
             /\ ResponseOk(lastOutcome.status)
             /\ result = invocations
             /\ invocations = attempt + 1
             /\ waits = attempt
             /\ cause'.kind = "Error"
             /\ cause'.msg = NotProvidedMessage
             /\ session' \in {"Completed", "Aborted"}
             /\ pc' = "idle"]_vars

NotProvidedWithoutRetryWitness ==
    /\ ui = "web"
    /\ Ended
    /\ Len(calls) = 2
    /\ LastCall.op = "inquiry"
    /\ LastCall.state = "empty"
    /\ cause.msg = NotProvidedMessage

\* `The research service returned an error (${response.status}).`
GenericServiceError(status) ==
    <<"The", "research", "service", "returned", "an", "error", ToString(status)>>

\* The service call in flight has failed on a response with a non-ok
\* status: its error carries the error text of the body when that is a
\* string, and the generic text otherwise.  A call that has returned has
\* received an ok status.
NonOkMessage ==
    /\ (Active /\ pc = "thrown" /\ lastOutcome.type = "response")
          => /\ ~ResponseOk(lastOutcome.status)
             /\ raised.kind = "Error"
             /\ raised.at = invocations
             /\ raised.statusCode = lastOutcome.status
             /\ raised.msg = IF lastOutcome.body.errorIsString
                             THEN lastOutcome.body.error
                             ELSE GenericServiceError(lastOutcome.status)
    /\ (Active /\ lastOutcome.type = "response"
          /\ ~ResponseOk(lastOutcome.status) /\ pc = "thrown")
          => raised = lastError
    /\ (Active /\ pc = "returned")
          => /\ lastOutcome.type = "response"
             /\ ResponseOk(lastOutcome.status)
             /\ result = invocations
    /\ (Active /\ lastOutcome.type = "response" /\ ResponseOk(lastOutcome.status))
          => pc = "returned"

---------------------------------------------------------------------------
(* Properties of the server's classifier                                   *)

RateLimitWords == {"429"}
ServerFaultWords == {"500", "501", "502", "503", "504"}
NetworkWords == {"timeout", "ECONNREFUSED", "network"}

\* The error carries a message that signals a rate limit, a 5xx server
\* fault, or a network error or timeout.
SignalsTransient(e) ==
    /\ e.kind \in {"TypeError", "Error", "Object"}
    /\ Words(e.msg) \cap (RateLimitWords \cup ServerFaultWords \cup NetworkWords) # {}

\* C27: the server's classifier treats as retryable every Gemini error that
\* signals a rate limit (429), any 5xx server fault, or a network error or
\* timeout, and every other error as permanent: generateContent is called
\* again after the former while attempts remain, never after the latter.
ServerClassifier ==
    (copy = "server" /\ LatestFailed)
        => /\ isRetryableErrorServer(lastError) <=> SignalsTransient(lastError)
           /\ (SignalsTransient(lastError) /\ invocations < config.maxAttempts)
                 => Retrying
           /\ ~SignalsTransient(lastError) => pc = "thrown"

---------------------------------------------------------------------------
(* Properties of the engine across the calls of a session                  *)

\* C28: the retry engine keeps no state between calls: whatever happened in
\* the earlier calls of the session, a call starts at attempt index 0
\* without a recorded error, its attempt index counts its own requests, its
\* first wait is the initial delay (within the jitter), and it gives up on
\* a retryable error only after maxAttempts requests of its own.
FreshCall ==
    Active
        => /\ config = DEFAULT_RETRY_CONFIG
           /\ (pc = "loop" /\ invocations = 0)
                 => /\ attempt = 0
                    /\ waits = 0
                    /\ lastError = Undefined
           /\ (pc = "loop" /\ invocations > 0) => attempt = invocations
           /\ pc \in {"sleeping", "returned", "thrown"} => attempt = invocations - 1
           /\ (pc = "sleeping" /\ waits = 1)
                 => Abs(delay - config.initialDelayMs) * 100
                        <= config.initialDelayMs * JitterPercent
           /\ (pc = "thrown" /\ isRetryableError(raised))
                 => invocations = config.maxAttempts

FreshCallWitness ==
    /\ session = "RunningStep"
    /\ step = 3
    /\ Len(calls) = 5
    /\ pc = "sleeping"
    /\ waits = 1
    /\ attempt = 0
    /\ delay = 450

\* C29: the step list is append-only during a session: a step of the
\* session leaves every recorded step as it is (id, subject, summary,
\* nextSubject) and in its place, and adds at most one step at the end.
AppendOnly ==
    [][~NewSessionStarts
          => /\ Len(steps') \in {Len(steps), Len(steps) + 1}
             /\ \A j \in 1..Len(steps) : steps'[j] = steps[j]]_vars

AppendOnlyWitness ==
    /\ ui = "web"
    /\ session = "RunningStep"
    /\ Len(steps) = 2
    /\ steps[1].nextSubject = steps[2].subject
    /\ steps[2].nextSubject = "C"

---------------------------------------------------------------------------
(* Properties of resolveApiUrl                                             *)

\* The base, whitespace around it apart, is `core` followed by slashes only.
IsCoreOf(core, base) ==
    \E lead \in 0..1, n \in 0..MaxSlashes, trail \in 0..1 :
        base = Repeat(" ", lead) \o core \o Repeat("/", n) \o Repeat(" ", trail)

Localhost(port) == <<"http:", "/", "/", "localhost", ":", port>>

\* C30: resolveApiUrl appends the path to the configured base with its
\* trailing slashes removed.  In the browser that text is returned as it
\* is; outside the browser a base with a URL scheme is used as it is, and
\* a relative one is resolved against http://localhost:PORT, PORT being
\* 4000 when it is not set.
ResolvedUrl ==
    url # <<>>
        => \A core \in BaseCores :
              IsCoreOf(core, env.base)
                  => IF isBrowser \/ hasScheme(core)
                     THEN url = core \o path
                     ELSE /\ url = newURL(core \o path,
                                          Localhost(IF env.port = <<>> THEN "4000"
                                                    ELSE env.port[1]))
                          /\ hasScheme(url)

ResolvedUrlWitness ==
    /\ ui = "cli"
    /\ env.base = <<" ", "/", ".netlify", "/", "functions", "/", "/">>
    /\ env.port = <<"5001">>
    /\ url = <<"http:", "/", "/", "localhost", ":", "5001",
               "/", ".netlify", "/", "functions", "/", "api", "/", "research">>

---------------------------------------------------------------------------
(* Properties of the observer's invocations                                *)

\* The failed attempts of the call that were followed by another attempt,
\* or are about to be (the engine sleeps before it).
FollowedByAnother ==
    IF pc \in {"returned", "thrown"} THEN Max(invocations - 1, 0) ELSE invocations

\* C31: the observer is invoked exactly once for each failed attempt that
\* is followed by another attempt, and before the wait for that retry
\* begins; it is not invoked after a success, after a terminal error or
\* after the final attempt.
ObserverOncePerRetryState ==
    /\ onRetryCalls = (IF observed THEN FollowedByAnother ELSE 0)
    /\ (observed /\ pc = "sleeping")
          => /\ onRetryArgs.errorAt = invocations
             /\ onRetryArgs.waitsBefore = waits - 1
    /\ (observed /\ pc \in {"returned", "thrown"} /\ invocations >= 1)
          => onRetryArgs.errorAt < invocations

ObserverOncePerRetry ==
    /\ []ObserverOncePerRetryState
    /\ [][onRetryCalls' # onRetryCalls
             => \/ pc' = "loop" /\ invocations' = 0 /\ onRetryCalls' = 0
                \/ /\ pc = "loop"
                   /\ pc' = "sleeping"
                   /\ onRetryCalls' = onRetryCalls + 1
                   /\ waits' = waits + 1]_vars

ObserverOncePerRetryWitness ==
    /\ observed
    /\ pc = "returned"
    /\ invocations = 3
    /\ onRetryCalls = 2
    /\ onRetryArgs.attempt = 2
    /\ onRetryArgs.errorAt = 2

---------------------------------------------------------------------------
(* Termination                                                             *)

\* A call of withRetry that has been entered returns or throws.
EveryCallSettles == (pc \in {"loop", "sleeping"}) ~> (pc \in {"returned", "thrown"})

\* A session that has begun reaches Completed or Aborted.
EverySessionEnds == Active ~> Ended

\* C32: when every request eventually returns or fails, every session
\* reaches Completed or Aborted whatever the backend's outcomes are, and
\* every withRetry call of a session returns or throws, after at most
\* maxAttempts requests.
Termination ==
    /\ EverySessionEnds
    /\ EveryCallSettles
    /\ [](Active => invocations <= config.maxAttempts)

TerminationWitness ==
    /\ ui = "web"
    /\ session = "Aborted"
    /\ loops = 3
    /\ Len(calls) = 5
    /\ cause.kind = "TypeError"
    /\ cause.at = 3

---------------------------------------------------------------------------
(* Properties of the requests of a session                                 *)

\* C33: a session with requestedStepCount = N under a client policy with
\* maxAttempts = M sends at most M * (2N - 1) requests to the backend,
\* whatever the requests' outcomes are: it makes at most 2N - 1 service
\* calls and each sends at most M requests.
RequestBudget ==
    Started
        => /\ requests <= config.maxAttempts * (2 * loops - 1)
           /\ Len(calls) <= 2 * loops - 1
           /\ requests <= config.maxAttempts * Len(calls)

RequestBudgetWitness ==
    /\ Ended
    /\ loops = 3
    /\ config.maxAttempts = 3
    /\ requests = 15

---------------------------------------------------------------------------
(* Properties of the session record                                        *)

\* The Research calls of the session that have succeeded so far.
SucceededResearch ==
    {j \in 1..Len(calls) : calls[j].op = "research" /\ calls[j].state = "resolved"}

\* C34: at every moment of a session the number of recorded steps is at
\* most the number of Research calls that have succeeded so far and at most
\* requestedStepCount, and Research is never started for a step number
\* above requestedStepCount.
StepBounds ==
    Started
        => /\ Len(steps) <= Cardinality(SucceededResearch)
           /\ Len(steps) <= loops
           /\ step <= loops
           /\ \A j \in 1..Len(calls) :
                 calls[j].op = "research" => calls[j].step \in 1..loops

StepBoundsWitness ==
    /\ ui = "web"
    /\ Ended
    /\ loops = 3
    /\ Len(steps) = 1
    /\ Cardinality(SucceededResearch) = 2
    /\ LastCall.op = "inquiry"
    /\ LastCall.step = 2

\* C35: in the session record of the web UI each step except the last has
\* a non-empty nextSubject, which is the subject of the step that follows
\* it, and the last step of a session that ran all requested steps has no
\* nextSubject.
NextSubjectLinks ==
    ui = "web"
        => /\ \A j \in 1..(Len(steps) - 1) :
                 /\ steps[j].nextSubject # ""
                 /\ steps[j].nextSubject = steps[j + 1].subject
           /\ (Ended /\ termination = "exhaustedRequestedSteps")
                 => /\ Len(steps) = loops
                    /\ steps[Len(steps)].nextSubject = ""

NextSubjectLinksWitness ==
    /\ ui = "web"
    /\ session = "Completed"
    /\ termination = "exhaustedRequestedSteps"
    /\ Len(steps) = 3
    /\ steps[1].nextSubject = "C"
    /\ steps[2].subject = "C"
    /\ steps[2].nextSubject = "B"
    /\ steps[3].nextSubject = ""

---------------------------------------------------------------------------
(* Properties of the web page                                              *)

\* C36: when a backend operation fails during step i of a web-UI session,
\* the error shown to the user names step i, the step that was running
\* when the failure occurred, in first and in later sessions alike.
ErrorNamesFailedStep ==
    (ui = "web" /\ Ended /\ errorShown)
        => /\ errorStep = step
           /\ errorStep = LastCall.step

\* C37: every web-UI session, however it ends (all steps done, early stop,
\* or an error thrown by Research or Next-Inquiry), sets isLoading back to
\* false and currentStep back to 0: the form accepts a submission again and
\* the results are displayed.
LoadingEnds ==
    /\ isLoading ~> (~isLoading /\ currentStep = 0)
    /\ []((ui = "web" /\ Ended) => (~isLoading /\ currentStep = 0))
    /\ []((ui = "web" /\ Active) => (isLoading /\ currentStep = step))

LoadingEndsWitness ==
    /\ ui = "web"
    /\ session = "Aborted"
    /\ cause.msg = NotProvidedMessage
    /\ LastCall.step = 2
    /\ Len(steps) = 1
    /\ ~isLoading
    /\ currentStep = 0

\* The steps displayed are the steps of the session the calls belong to.
StepsOfOneSession ==
    \A j \in 1..Len(steps) :
        /\ steps[j].id = j
        /\ steps[j].subject = CallsOf("research")[j].arg
        /\ steps[j].summary = CallsOf("research")[j].ret

\* handleStartResearch begins a session: its first Research call is entered.
SessionBegins ==
    /\ ui = "web"
    /\ session' = "RunningStep"
    /\ Len(calls') = 1
    /\ pc' = "loop"
    /\ invocations' = 0

\* C38: in the web UI a session is never started while a session is in
\* progress (isLoading true), so the step list displayed never holds steps
\* of two sessions.
NoOverlappingSessions ==
    /\ [][SessionBegins => (~isLoading /\ ~Active /\ pc = "idle")]_vars
    /\ []((ui = "web" /\ ~isLoading) => ~Active)
    /\ [](ui = "web" => StepsOfOneSession)

NoOverlappingSessionsWitness ==
    /\ ui = "web"
    /\ isLoading
    /\ session = "AwaitingNextSubject"
    /\ pc = "returned"
    /\ currentStep = 2
    /\ Len(steps) = 1

---------------------------------------------------------------------------
(* Properties of the client's retry decision                               *)

\* The subjects a Research request of the model is made for.
SubjectTexts == InitialSubjects \cup {trim(t) : t \in InquiryTexts \ Whitespace}

\* The client's classification of the error made from an answer.
RetriesAnswer(a) ==
    isRetryableError(
        handleResponse(MkOutcome("response", a.status, a.body, NoThrown), 1).error)

\* C39: whether the client retries a failed response depends on the kind
\* of failure only (no response, or the response status), not on the text
\* of the subject: a Research request that failed with some status while
\* attempts remain is retried exactly if a Research request for any other
\* subject that receives the same status is.
RetryIndependentOfText ==
    (Active /\ LatestFailed /\ lastOutcome.type = "response"
        /\ LastCall.op = "research" /\ invocations < config.maxAttempts)
        => \A s \in SubjectTexts : \A g \in GeminiResults("research") :
              researchRoute(s, g).status = lastOutcome.status
                  => (Retrying <=> RetriesAnswer(researchRoute(s, g)))

====
